---- MODULE Spec2Model ----
(***************************************************************************)
(* A model of the shopping assistant of src/agent.py and its mock catalog  *)
(* of src/tools.py.  Queries are TLA+ strings; every pattern of the        *)
(* source is matched character by character, as Python's re module         *)
(* matches it (leftmost match, alternatives in order, greedy and lazy      *)
(* quantifiers).  Prices are integers in cents, datetimes are integers in  *)
(* clock ticks (TicksPerDay ticks to a day, day 0 a Monday).               *)
(*                                                                         *)
(* A pattern P is modelled by two operators: PAt(s, i), group(1) of the    *)
(* match of P that starts at position i (None when P does not match        *)
(* there), and P(s), group(1) of re.search: the match at the leftmost      *)
(* position that has one.                                                  *)
(***************************************************************************)
EXTENDS Integers, Sequences, FiniteSets, TLC

VARIABLES
    now,       \* the clock: what datetime.now() reads
    elapsed,   \* ticks the clock has advanced since the first query arrived
    pc,        \* where handle_query stands: idle, dispatch, handle, format, done,
               \* raised
    query,     \* the query string being handled
    info,      \* the Intent Record parse_query returned
    parsedAt,  \* the clock reading parse_query saw
    handler,   \* the handler handle_query chose
    calls,     \* the handlers invoked for this query, in order
    response,  \* what handle_query returned, or the exception it raised
    shipping,  \* the ShippingDetails get_shipping_estimate returned to
               \* _format_product_response, None before
    prev       \* the Intent Record of the previous call on the same string

vars == <<now, elapsed, pc, query, info, parsedAt, handler, calls, response, shipping,
          prev>>

(***************************************************************************)
(* Bounds of the model.                                                    *)
(***************************************************************************)
\* Clock resolution: ticks per calendar day.
TicksPerDay == 2
\* The clock advances at most this many ticks in one run.
MaxTicks == 2
\* A query is made of at most this many phrases of the Lexicon.
MaxPhrases == 2

(***************************************************************************)
(* Optional values: Python's None is the empty tuple, a value v is <<v>>.  *)
(***************************************************************************)
None == <<>>
Some(v) == <<v>>

\* a if it is present, else b: the next pattern is tried only when one fails.
OrElse(a, b) == IF a # None THEN a ELSE b

(***************************************************************************)
(* Characters and strings.                                                 *)
(***************************************************************************)
Digits == {"0", "1", "2", "3", "4", "5", "6", "7", "8", "9"}
LowerLetters == {"a", "b", "c", "d", "e", "f", "g", "h", "i", "j", "k", "l", "m",
                 "n", "o", "p", "q", "r", "s", "t", "u", "v", "w", "x", "y", "z"}
UpperLetters == {"A", "B", "C", "D", "E", "F", "G", "H", "I", "J", "K", "L", "M",
                 "N", "O", "P", "Q", "R", "S", "T", "U", "V", "W", "X", "Y", "Z"}
\* The character class \w.
WordChars == LowerLetters \cup UpperLetters \cup Digits \cup {"_"}
\* The quotation marks of ['"].
Quotes == {"'", "\""}

\* The characters of a class: "d" \d, "w" \w, "s" \s (queries hold no tab or line
\* break), "ws" [\w\s].
ClassChars == [cls \in {"d", "w", "s", "ws"} |->
    CASE cls = "d"  -> Digits
      [] cls = "w"  -> WordChars
      [] cls = "s"  -> {" "}
      [] cls = "ws" -> WordChars \cup {" "}]

\* The i-th character of s, "" outside s.
Ch(s, i) == IF i >= 1 /\ i <= Len(s) THEN SubSeq(s, i, i) ELSE ""
\* The literal lit stands in s at position i.
At(s, i, lit) == i >= 1 /\ i + Len(lit) - 1 <= Len(s) /\ SubSeq(s, i, i + Len(lit) - 1) = lit

ToLower == [c \in UpperLetters |->
    CASE c = "A" -> "a" [] c = "B" -> "b" [] c = "C" -> "c" [] c = "D" -> "d"
      [] c = "E" -> "e" [] c = "F" -> "f" [] c = "G" -> "g" [] c = "H" -> "h"
      [] c = "I" -> "i" [] c = "J" -> "j" [] c = "K" -> "k" [] c = "L" -> "l"
      [] c = "M" -> "m" [] c = "N" -> "n" [] c = "O" -> "o" [] c = "P" -> "p"
      [] c = "Q" -> "q" [] c = "R" -> "r" [] c = "S" -> "s" [] c = "T" -> "t"
      [] c = "U" -> "u" [] c = "V" -> "v" [] c = "W" -> "w" [] c = "X" -> "x"
      [] c = "Y" -> "y" [] c = "Z" -> "z"]
ToUpper == [c \in LowerLetters |->
    CASE c = "a" -> "A" [] c = "b" -> "B" [] c = "c" -> "C" [] c = "d" -> "D"
      [] c = "e" -> "E" [] c = "f" -> "F" [] c = "g" -> "G" [] c = "h" -> "H"
      [] c = "i" -> "I" [] c = "j" -> "J" [] c = "k" -> "K" [] c = "l" -> "L"
      [] c = "m" -> "M" [] c = "n" -> "N" [] c = "o" -> "O" [] c = "p" -> "P"
      [] c = "q" -> "Q" [] c = "r" -> "R" [] c = "s" -> "S" [] c = "t" -> "T"
      [] c = "u" -> "U" [] c = "v" -> "V" [] c = "w" -> "W" [] c = "x" -> "X"
      [] c = "y" -> "Y" [] c = "z" -> "Z"]

RECURSIVE Join(_, _, _)
\* The concatenation of the strings pieces[lo], ..., pieces[hi] (by halves, so that
\* the recursion stays shallow on long strings).
Join(pieces, lo, hi) ==
    IF lo > hi THEN ""
    ELSE IF lo = hi THEN pieces[lo]
    ELSE Join(pieces, lo, (lo + hi) \div 2) \o Join(pieces, (lo + hi) \div 2 + 1, hi)

\* c in lower case.
LowerChar(c) == IF c \in UpperLetters THEN ToLower[c] ELSE c
\* c in upper case.
UpperChar(c) == IF c \in LowerLetters THEN ToUpper[c] ELSE c

\* str.lower()
Lower(s) == Join([i \in 1..Len(s) |-> LowerChar(SubSeq(s, i, i))], 1, Len(s))
\* str.upper()
Upper(s) == Join([i \in 1..Len(s) |-> UpperChar(SubSeq(s, i, i))], 1, Len(s))

\* The least and the greatest element of a non-empty set of integers.
Min(S) == CHOOSE x \in S : \A y \in S : x <= y
Max(S) == CHOOSE x \in S : \A y \in S : y <= x
\* The least element of a set of positions, 0 for the empty set: the leftmost
\* position at which a pattern matches, 0 when it matches nowhere.
Leftmost(S) == IF S = {} THEN 0 ELSE Min(S)
\* The greatest element of a set of positions, 0 for the empty set.
Rightmost(S) == IF S = {} THEN 0 ELSE Max(S)

\* Python's `lit in s`.
Contains(s, lit) == \E i \in 1..Len(s) : At(s, i, lit)

\* The first position at or after i whose character is not of class cls (the
\* position after s when there is none): where a greedy run from i ends.
SpanEnd(s, i, cls) ==
    IF i > Len(s) THEN i
    ELSE CHOOSE j \in i..(Len(s) + 1) :
            /\ j = Len(s) + 1 \/ SubSeq(s, j, j) \notin ClassChars[cls]
            /\ \A k \in i..(j - 1) : SubSeq(s, k, k) \in ClassChars[cls]

\* The first present value of a sequence of optional values, None when there is none.
FirstSome(opts) ==
    IF \A k \in 1..Len(opts) : opts[k] = None THEN None
    ELSE opts[Min({k \in 1..Len(opts) : opts[k] # None})]

(***************************************************************************)
(* Numbers.  float(text) of a text \d+\.?\d* is kept in cents; the queries *)
(* of the model carry at most two fractional digits, further ones are cut. *)
(***************************************************************************)
DigitValue == [c \in Digits |->
    CASE c = "0" -> 0 [] c = "1" -> 1 [] c = "2" -> 2 [] c = "3" -> 3 [] c = "4" -> 4
      [] c = "5" -> 5 [] c = "6" -> 6 [] c = "7" -> 7 [] c = "8" -> 8 [] c = "9" -> 9]

RECURSIVE IntOf(_)
\* int(text) of a text of digits (0 for the empty text).
IntOf(s) ==
    IF s = "" THEN 0
    ELSE IntOf(SubSeq(s, 1, Len(s) - 1)) * 10 + DigitValue[SubSeq(s, Len(s), Len(s))]

\* The integer part of a number \d+\.?\d*.
IntPart(s) == SubSeq(s, 1, SpanEnd(s, 1, "d") - 1)
\* Its first two fractional digits, padded with zeros.
Hundredths(s) == SubSeq(SubSeq(s, SpanEnd(s, 1, "d") + 1, Len(s)) \o "00", 1, 2)
\* float(text), in cents.
FloatCents(s) == IntOf(IntPart(s)) * 100 + IntOf(Hundredths(s))

\* Where a run of digits from i, then \.?, ends.
PointEnd(s, e) == IF At(s, e, ".") THEN e + 1 ELSE e
\* Where the number \d+\.?\d* starting at i ends.
NumberEnd(s, i) == SpanEnd(s, PointEnd(s, SpanEnd(s, i, "d")), "d")
\* The number \d+\.?\d* that starts at i, None when i is 0.
NumberAt(s, i) == IF i = 0 THEN None ELSE Some(SubSeq(s, i, NumberEnd(s, i) - 1))

(***************************************************************************)
(* search_patterns['price'], searched in the raw query.                    *)
(***************************************************************************)
\* \s*\$(?=\d) from a: the position of the digit, 0 when it does not match.
DollarDigit(q, a) ==
    IF At(q, a, "$") /\ Ch(q, a + 1) \in Digits THEN a + 1 ELSE 0

\* kw\s*\$(\d+\.?\d*) for kw = under, less than, cheaper than
PriceAfterAt(q, kw, i) ==
    IF At(q, i, kw) THEN NumberAt(q, DollarDigit(q, SpanEnd(q, i + Len(kw), "s")))
    ELSE None
PriceAfter(q, kw) ==
    PriceAfterAt(q, kw, Leftmost({i \in 1..Len(q) : PriceAfterAt(q, kw, i) # None}))

\* \$(\d+\.?\d*)\s*or less
PriceOrLessAt(q, i) ==
    IF DollarDigit(q, i) # 0 /\ At(q, SpanEnd(q, NumberEnd(q, i + 1), "s"), "or less")
    THEN NumberAt(q, i + 1) ELSE None
PriceOrLess(q) == PriceOrLessAt(q, Leftmost({i \in 1..Len(q) : PriceOrLessAt(q, i) # None}))

\* \$(\d+\.?\d*)\s*
PriceBare(q) == NumberAt(q, Leftmost({DollarDigit(q, i) : i \in 1..Len(q)} \ {0}))

\* float(match.group(1)), None when there is no match.
FloatOf(m) == IF m = None THEN None ELSE Some(FloatCents(m[1]))

\* parse_query, "Extract price using patterns": the patterns in list order, on the
\* raw query; the first that matches gives max_price.
ExtractPrice(q) ==
    FloatOf(OrElse(PriceAfter(q, "under"),
            OrElse(PriceAfter(q, "less than"),
            OrElse(PriceAfter(q, "cheaper than"),
            OrElse(PriceOrLess(q), PriceBare(q))))))

(***************************************************************************)
(* parse_query, "Extract size": three patterns on the lower-cased query,   *)
(* the result upper-cased.                                                 *)
(***************************************************************************)
\* \s+ from a: the position after the white space, 0 when none stands at a.
SpacesEnd(l, a) == IF a = 0 \/ Ch(l, a) # " " THEN 0 ELSE SpanEnd(l, a, "s")
\* \w+ from a: the position after the word, 0 when no word character stands at a.
WordEnd(l, a) == IF a = 0 \/ Ch(l, a) \notin WordChars THEN 0 ELSE SpanEnd(l, a, "w")
\* (\w+) from a: the word, None when there is none.
WordAt(l, a) == IF WordEnd(l, a) = 0 THEN None ELSE Some(SubSeq(l, a, WordEnd(l, a) - 1))

\* size\s+(\w+)
SizeAfterAt(l, i) == IF At(l, i, "size") THEN WordAt(l, SpacesEnd(l, i + 4)) ELSE None
SizeAfter(l) == SizeAfterAt(l, Leftmost({i \in 1..Len(l) : SizeAfterAt(l, i) # None}))

\* in\s+(\w+)\s+size
SizeBeforeAt(l, i) ==
    IF At(l, i, "in") /\ At(l, SpacesEnd(l, WordEnd(l, SpacesEnd(l, i + 2))), "size")
    THEN WordAt(l, SpacesEnd(l, i + 2)) ELSE None
SizeBefore(l) == SizeBeforeAt(l, Leftmost({i \in 1..Len(l) : SizeBeforeAt(l, i) # None}))

\* size:\s*(\w+)
SizeColonAt(l, i) == IF At(l, i, "size:") THEN WordAt(l, SpanEnd(l, i + 5, "s")) ELSE None
SizeColon(l) == SizeColonAt(l, Leftmost({i \in 1..Len(l) : SizeColonAt(l, i) # None}))

\* match.group(1).upper(), None when there is no match.
UpperOf(m) == IF m = None THEN None ELSE Some(Upper(m[1]))

\* The three size patterns in list order on the lower-cased query l.
ExtractSize(l) == UpperOf(OrElse(SizeAfter(l), OrElse(SizeBefore(l), SizeColon(l))))

(***************************************************************************)
(* parse_query, "Extract color".                                           *)
(***************************************************************************)
colors == <<"white", "black", "blue", "red", "green", "yellow", "floral">>

\* WholeWord without the two \b: a color inside a longer word would be accepted.
WholeWordSubstring(l, word) == \E i \in 1..Len(l) : At(l, i, word)

\* re.search(rf'\b{word}\b', l) for a word of word characters
WholeWord(l, word) ==
    \E i \in 1..Len(l) :
        At(l, i, word) /\ Ch(l, i - 1) \notin WordChars /\ Ch(l, i + Len(word)) \notin WordChars

\* The first color of the list that stands in l as a whole word.
ExtractColor(l) ==
    FirstSome([k \in 1..Len(colors) |->
        IF Contains(l, colors[k]) /\ WholeWord(l, colors[k]) THEN Some(colors[k]) ELSE None])

(***************************************************************************)
(* parse_query, "Determining query type": comparison is tested first.      *)
(***************************************************************************)
\* search_patterns['comparison'] (better deals? matches wherever "better deal" stands)
comparison_patterns == <<"better deal", "compare", "cheaper", "best price",
                         "lowest price", "price difference", "price comparison">>
\* search_patterns['return'] (returns? matches wherever "return" stands)
return_patterns == <<"return policy", "can i return", "return", "refund", "exchange">>

\* any(re.search(pattern, l) for pattern in patterns)
AnyPattern(l, patterns) == \E k \in 1..Len(patterns) : Contains(l, patterns[k])

\* The query type of the lower-cased query l.
QueryType(l) ==
    IF AnyPattern(l, comparison_patterns) THEN "comparison"
    ELSE IF AnyPattern(l, return_patterns) THEN "return"
    ELSE "search"

(***************************************************************************)
(* parse_query, "Extract store information": (?:at|from|in|store)\s+       *)
(* (Store[ABC]) on the raw query.                                          *)
(***************************************************************************)
\* (Store[ABC]) from a
StoreNameAt(q, a) ==
    IF At(q, a, "Store") /\ Ch(q, a + 5) \in {"A", "B", "C"}
    THEN Some(SubSeq(q, a, a + 5)) ELSE None

\* Where (?:at|from|in|store) ends when it matches at i, 0 when it does not (no
\* two of the alternatives start alike, so at most one matches).
StoreKeywordEnd(q, i) ==
    Rightmost({i + Len(kw) : kw \in {kw \in {"at", "from", "in", "store"} : At(q, i, kw)}})

StoreAt(q, i) == StoreNameAt(q, SpacesEnd(q, StoreKeywordEnd(q, i)))
ExtractStore(q) == StoreAt(q, Leftmost({i \in 1..Len(q) : StoreAt(q, i) # None}))

(***************************************************************************)
(* parse_query, "Extract discount code": kw ['"]([\w\d]+)['"] with the     *)
(* keyword matched in any letter case (l is the lower-cased query), the    *)
(* token taken from the raw query q.                                       *)
(***************************************************************************)
\* ['"]([\w\d]+)['"] with the opening mark at a
QuotedTokenAt(q, a) ==
    IF Ch(q, a) \in Quotes /\ Ch(q, WordEnd(q, a + 1)) \in Quotes
    THEN WordAt(q, a + 1) ELSE None

DiscountAfterAt(q, l, kw, i) ==
    IF At(l, i, kw) THEN QuotedTokenAt(q, i + Len(kw)) ELSE None
DiscountAfter(q, l, kw) ==
    DiscountAfterAt(q, l, kw, Leftmost({i \in 1..Len(q) : DiscountAfterAt(q, l, kw, i) # None}))

ExtractDiscount(q, l) ==
    OrElse(DiscountAfter(q, l, "discount code "),
    OrElse(DiscountAfter(q, l, "code "), DiscountAfter(q, l, "coupon ")))

(***************************************************************************)
(* _extract_product_name.                                                  *)
(***************************************************************************)
\* The positions of s that hold no white space.
NonSpace(s) == {i \in 1..Len(s) : SubSeq(s, i, i) # " "}
\* str.strip()
Strip(s) == IF NonSpace(s) = {} THEN "" ELSE SubSeq(s, Min(NonSpace(s)), Max(NonSpace(s)))

Fillers == {"a", "an", "the", "some"}

\* Where the word that position i lies in starts.
WordStart(s, i) == Min({j \in 1..i : \A k \in j..i : SubSeq(s, k, k) \in WordChars})
\* The whole word of s that position i lies in ("" when s[i] is no word character).
WordAround(s, i) ==
    IF Ch(s, i) \notin WordChars THEN ""
    ELSE SubSeq(s, WordStart(s, i), SpanEnd(s, i, "w") - 1)

\* re.sub(r'\b(a|an|the|some)\b', '', s): every whole word that is a filler is
\* dropped, everything else is kept.
RemoveFillers(s) ==
    Join([i \in 1..Len(s) |-> IF WordAround(s, i) \in Fillers THEN "" ELSE SubSeq(s, i, i)],
         1, Len(s))

\* "Clean up the extracted product name": strip, drop the filler words, strip.
CleanName(s) == Strip(RemoveFillers(Strip(s)))

\* The text s when it is not empty, else None: `if product_name:`.
NonEmpty(s) == IF s = "" THEN None ELSE Some(s)
\* The cleaned group(1) of a match m of a product indicator; None when there is no
\* match or when nothing is left of it, and then the next indicator is tried.
Cleaned(m) == IF m = None THEN None ELSE NonEmpty(CleanName(m[1]))

\* The positions of the quotation marks of q.
QuotePositions(q) == {i \in 1..Len(q) : SubSeq(q, i, i) \in Quotes}
\* Tier 1, re.search(r'[\'\"](.*?)[\'\"]', query): where the match starts (the first
\* quotation mark, when a later one exists), 0 when there is no match.
QuoteStart(q) == IF Cardinality(QuotePositions(q)) < 2 THEN 0 ELSE Min(QuotePositions(q))
\* group(1) of the match that starts at i: the text up to the next quotation mark.
QuoteText(q, i) == SubSeq(q, i + 1, Min({j \in QuotePositions(q) : j > i}) - 1)
\* query[:query.find(quote_match.group(0))].lower() for the match that starts at i
QuotePrefix(q, i) == Lower(SubSeq(q, 1, i - 1))

\* The boundary (?:under|\$|in size|with size|color|from|at|\?|$) stands at p.
Boundaries == {"under", "$", "in size", "with size", "color", "from", "at", "?"}
BoundaryAt(l, p) == p = Len(l) + 1 \/ \E t \in Boundaries : At(l, p, t)

\* ([\w\s]+?) followed by the boundary, from p: the end of the shortest capture of at
\* least one character (the position of the boundary), 0 when there is none.
LazyCaptureEnd(l, p) == Leftmost({e \in (p + 1)..SpanEnd(l, p, "ws") : BoundaryAt(l, e)})
\* The capture ([\w\s]+?) from p, None when p is 0.
CaptureAt(l, p) == IF p = 0 THEN None ELSE Some(SubSeq(l, p, LazyCaptureEnd(l, p) - 1))

\* The integers from hi down to lo, as a sequence (a greedy quantifier giving back).
Down(hi, lo) == [k \in 1..(hi - lo + 1) |-> hi - k + 1]

RECURSIVE Flatten(_)
\* The concatenation of a sequence of sequences.
Flatten(ss) == IF ss = <<>> THEN <<>> ELSE Head(ss) \o Flatten(Tail(ss))

\* \s+ from e: the positions where it may end, in the order the matcher tries them
\* (no position when e is 0).
AfterSpaces(l, e) == IF e = 0 THEN <<>> ELSE Down(SpanEnd(l, e, "s"), e + 1)

\* (?:a|an)?\s* from pos: the positions where the capture may start, in the order the
\* matcher tries them ('a', then 'an', then no article; the white space greedy).
ArticleStarts(l, pos) ==
    (IF At(l, pos, "a") THEN Down(SpanEnd(l, pos + 1, "s"), pos + 1) ELSE <<>>)
    \o (IF At(l, pos, "an") THEN Down(SpanEnd(l, pos + 2, "s"), pos + 2) ELSE <<>>)
    \o Down(SpanEnd(l, pos, "s"), pos)
\* (?:a|an)?\s* from each of the positions, in order.
ArticleStartsFrom(l, positions) ==
    Flatten([k \in 1..Len(positions) |-> ArticleStarts(l, positions[k])])

\* (?:me\s+)?(?:a|an)?\s* from pos: the capture starts, in order.
MeStarts(l, pos) ==
    (IF At(l, pos, "me") THEN ArticleStartsFrom(l, AfterSpaces(l, pos + 2)) ELSE <<>>)
    \o ArticleStarts(l, pos)
\* (?:me\s+)?(?:a|an)?\s* from each of the positions, in order.
MeStartsFrom(l, positions) ==
    Flatten([k \in 1..Len(positions) |-> MeStarts(l, positions[k])])

\* \s+(?:me\s+)?(?:a|an)?\s* (with_me) or \s+(?:a|an)?\s* after a verb that ends
\* before e: the capture starts, in order.
StartsAfterVerb(l, e, with_me) ==
    IF with_me THEN MeStartsFrom(l, AfterSpaces(l, e))
    ELSE ArticleStartsFrom(l, AfterSpaces(l, e))

\* The k-th start of the sequence, 0 when k is 0.
StartNumber(starts, k) == IF k = 0 THEN 0 ELSE starts[k]
\* The first start, in the matcher's order, from which the lazy capture reaches a
\* boundary; 0 when there is none.
FirstStart(l, starts) ==
    StartNumber(starts, Leftmost({k \in 1..Len(starts) : LazyCaptureEnd(l, starts[k]) # 0}))

\* Where the verb of (?:v1|v2|...) ends when one stands at i, 0 when none does (no
\* verb of a template starts another, so at most one matches).
VerbEnd(l, i, verbs) == Rightmost({i + Len(v) : v \in {v \in verbs : At(l, i, v)}})

\* group(1) of the match of a verb template that starts at i, None when it does not
\* match there.
VerbMatchAt(l, i, verbs, with_me) ==
    CaptureAt(l, FirstStart(l, StartsAfterVerb(l, VerbEnd(l, i, verbs), with_me)))

\* re.search of a verb template: the leftmost start that matches.
VerbSearch(l, verbs, with_me) ==
    VerbMatchAt(l, Leftmost({i \in 1..Len(l) : VerbMatchAt(l, i, verbs, with_me) # None}),
                verbs, with_me)

Nouns == {"skirt", "dress", "jacket", "shoes", "sneakers", "top"}

\* Where the noun of (?:skirt|...|top) ends when one stands at p, 0 when none does.
NounAfter(l, p) == Rightmost({p + Len(n) : n \in {n \in Nouns : At(l, p, n)}})
\* (?:skirt|...|top)\s+(?:under|...|$) from p: the position after the noun, 0 when it
\* does not match.
NounEnd(l, p) == IF BoundaryAt(l, SpacesEnd(l, NounAfter(l, p))) THEN NounAfter(l, p) ELSE 0
\* The text from p0 up to e, None when e is 0.
NounGroup(l, p0, e) == IF e = 0 THEN None ELSE Some(SubSeq(l, p0, e - 1))
\* ((?:\w+\s+)?(?:skirt|...))\s+(?:under|...) from p0: group(1), None when it does not
\* match; the descriptor word is tried before the bare noun.
NounFromWord(l, p0) ==
    OrElse(NounGroup(l, p0, NounEnd(l, SpacesEnd(l, WordEnd(l, p0)))),
           NounGroup(l, p0, NounEnd(l, p0)))
\* \s*((?:\w+\s+)?(?:skirt|...))\s+(?:under|...) from pos
NounMatchFrom(l, pos) == NounFromWord(l, SpanEnd(l, pos, "s"))

\* The third template at start i: (?:a|an)? tries 'a', then 'an', then nothing.
NounMatchAt(l, i) ==
    IF i = 0 THEN None
    ELSE OrElse(IF At(l, i, "a") THEN NounMatchFrom(l, i + 1) ELSE None,
         OrElse(IF At(l, i, "an") THEN NounMatchFrom(l, i + 2) ELSE None,
                NounMatchFrom(l, i)))

NounSearch(l) == NounMatchAt(l, Leftmost({i \in 1..Len(l) : NounMatchAt(l, i) # None}))

\* Tier 2, product_indicators: the templates in order; a template whose cleaned
\* capture is empty is passed over.
IndicatorName(l) ==
    OrElse(Cleaned(VerbSearch(l, {"looking for", "find", "need", "want"}, FALSE)),
    OrElse(Cleaned(VerbSearch(l, {"find", "get", "show"}, TRUE)),
           Cleaned(NounSearch(l))))

product_types == <<"skirt", "dress", "jacket", "sneakers", "shoes">>

\* (\w+)\s+{product_type} from i: group(1), None when it does not match.
AdjMatchAt(l, i, product_type) ==
    IF At(l, SpacesEnd(l, WordEnd(l, i)), product_type) THEN WordAt(l, i) ELSE None
\* re.search(rf'(\w+)\s+{product_type}', l)
AdjMatch(l, product_type) ==
    AdjMatchAt(l, Leftmost({i \in 1..Len(l) : AdjMatchAt(l, i, product_type) # None}),
               product_type)

\* f"{adj_match.group(1)} {product_type}", or the bare product type.
WithAdjective(adj, product_type) ==
    IF adj # None THEN Some(adj[1] \o " " \o product_type) ELSE Some(product_type)
\* The name tier 3 gives for the k-th product type, None when k is 0.
TypeNameOf(l, k) ==
    IF k = 0 THEN None ELSE WithAdjective(AdjMatch(l, product_types[k]), product_types[k])
\* Tier 3, "Look for specific product types": the first type of the list that stands
\* in l.
TypeName(l) ==
    TypeNameOf(l, Leftmost({k \in 1..Len(product_types) : Contains(l, product_types[k])}))

\* Tier 1 for the match that starts at i (0: no match): the quoted text, unless
\* "code" stands before the match.
QuotedName(q, i) ==
    IF i # 0 /\ ~Contains(QuotePrefix(q, i), "code") THEN Some(QuoteText(q, i)) ELSE None

\* The three tiers, for the query q and its lower-cased form l.
ProductName(q, l) == OrElse(QuotedName(q, QuoteStart(q)), OrElse(IndicatorName(l), TypeName(l)))

_extract_product_name(q) == ProductName(q, Lower(q))

(***************************************************************************)
(* Datetimes.  A datetime is a count of clock ticks, TicksPerDay to a day; *)
(* day 0 is a Monday, so that weekday() is the day number modulo 7.        *)
(***************************************************************************)
\* datetime.weekday(): Monday is 0.
Weekday(t) == (t \div TicksPerDay) % 7
\* dt + timedelta(days=n)
PlusDays(t, n) == t + n * TicksPerDay

months == <<"january", "february", "march", "april", "may", "june", "july",
            "august", "september", "october", "november", "december">>
\* The days of each month of 1900, the year strptime gives a date without a year.
DaysInMonth == <<31, 28, 31, 30, 31, 30, 31, 31, 30, 31, 30, 31>>

RECURSIVE DaysBefore(_)
\* The days of the year before month m.
DaysBefore(m) == IF m = 1 THEN 0 ELSE DaysBefore(m - 1) + DaysInMonth[m - 1]

\* datetime(1900, m, d), midnight; 1 January 1900, a Monday, is 46319 days before day 0.
Date1900(m, d) == (DaysBefore(m) + d - 1 - 46319) * TicksPerDay

\* %d of the month m: one or two digits, a day the month has.  None is the ValueError.
StrptimeDay(m, day) ==
    IF /\ Len(day) \in {1, 2}
       /\ SpanEnd(day, 1, "d") = Len(day) + 1
       /\ IntOf(day) >= 1
       /\ IntOf(day) <= DaysInMonth[m]
    THEN Some(Date1900(m, IntOf(day)))
    ELSE None
\* The white space and %d after the name of month m (0: no month name).
StrptimeMonth(text, m) ==
    IF m = 0 \/ SpacesEnd(text, Len(months[m]) + 1) = 0 THEN None
    ELSE StrptimeDay(m, SubSeq(text, SpacesEnd(text, Len(months[m]) + 1), Len(text)))
\* datetime.strptime(text, "%B %d"): a full month name, white space, a day of one or
\* two digits that the month has, and nothing after it.
Strptime(text) == StrptimeMonth(text, Leftmost({m \in 1..12 : At(text, 1, months[m])}))

weekdays == <<"monday", "tuesday", "wednesday", "thursday", "friday", "saturday", "sunday">>

\* (monday|...|sunday) at a: the number of the weekday, 1 to 7, 0 when none stands there.
WeekdayAt(l, a) == Leftmost({d \in 1..7 : At(l, a, weekdays[d])})
\* kw\s*(monday|...|sunday) at i, for kw = by, before
WeekdayAfterAt(l, kw, i) ==
    IF At(l, i, kw) THEN WeekdayAt(l, SpanEnd(l, i + Len(kw), "s")) ELSE 0
\* days_map[target_day]: Monday is 0.  None when there is no weekday.
DaysMap(d) == IF d = 0 THEN None ELSE Some(d - 1)
\* days_map of the weekday of the leftmost match, None when the pattern does not match.
WeekdayAfter(l, kw) ==
    DaysMap(WeekdayAfterAt(l, kw, Leftmost({i \in 1..Len(l) : WeekdayAfterAt(l, kw, i) # 0})))

\* The position after the last digit inside the word l[c..w-1] that is not its first
\* character, 0 when there is none.
LastDigitEnd(l, c, w) ==
    IF {k \in (c + 1)..(w - 1) : SubSeq(l, k, k) \in Digits} = {} THEN 0
    ELSE Max({k \in (c + 1)..(w - 1) : SubSeq(l, k, k) \in Digits}) + 1
\* (\w+\s*\d+) from c, where the word run from c ends before w: the position after the
\* capture, 0 when it does not match.  The word run is greedy: it gives characters
\* back only to leave \d+ a digit.
DateTokenEndFrom(l, c, w) ==
    IF w = c THEN 0
    ELSE IF Ch(l, SpanEnd(l, w, "s")) \in Digits THEN SpanEnd(l, SpanEnd(l, w, "s"), "d")
    ELSE LastDigitEnd(l, c, w)
DateTokenEnd(l, c) == DateTokenEndFrom(l, c, SpanEnd(l, c, "w"))
\* (\w+\s*\d+) from c: group(1), or None.
DateTokenAt(l, c) ==
    IF DateTokenEnd(l, c) # 0 THEN Some(SubSeq(l, c, DateTokenEnd(l, c) - 1)) ELSE None
\* by\s*(\w+\s*\d+) from b
ByToken(l, b) == IF At(l, b, "by") THEN DateTokenAt(l, SpanEnd(l, b + 2, "s")) ELSE None
\* \s*by\s*(\w+\s*\d+) where the keyword ends before a: group(1), or None.
DateTokenAfter(l, a) == ByToken(l, SpanEnd(l, a, "s"))

\* Where deliver(?:ed|y)? ends when it starts at i.
DeliverEnd(l, i) ==
    IF At(l, i + 7, "ed") THEN i + 9 ELSE IF At(l, i + 7, "y") THEN i + 8 ELSE i + 7
\* deliver(?:ed|y)?\s*by\s*(\w+\s*\d+)
DeliverByAt(l, i) ==
    IF At(l, i, "deliver") THEN DateTokenAfter(l, DeliverEnd(l, i)) ELSE None
DeliverBy(l) == DeliverByAt(l, Leftmost({i \in 1..Len(l) : DeliverByAt(l, i) # None}))

\* arrive\s*by\s*(\w+\s*\d+)
ArriveByAt(l, i) == IF At(l, i, "arrive") THEN DateTokenAfter(l, i + 6) ELSE None
ArriveBy(l) == ArriveByAt(l, Leftmost({i \in 1..Len(l) : ArriveByAt(l, i) # None}))

\* DaysUntil without the step `if days_until == 0: days_until = 7`: the deadline of
\* a query made on the named weekday would be the same day.
DaysUntilSameDay(target_day_num, current_day) == (target_day_num - current_day) % 7

\* The number of days to the next occurrence of weekday target_day_num: never 0.
DaysUntil(target_day_num, current_day) ==
    IF (target_day_num - current_day) % 7 = 0 THEN 7
    ELSE (target_day_num - current_day) % 7

\* "Handle day of week": today + timedelta(days=days_until) for the weekday w that a
\* pattern matched, None when it did not match.
NextWeekday(w, today) ==
    IF w = None THEN None ELSE Some(PlusDays(today, DaysUntil(w[1], Weekday(today))))
\* "Handle specific date": strptime of the group a pattern matched; None when it did
\* not match or strptime refuses the text, and then the next pattern is tried.
SpecificDate(m) == IF m = None THEN None ELSE Strptime(m[1])

\* The patterns of search_patterns['date'] in order, on the lower-cased query l.
DeliveryDate(l, today) ==
    OrElse(NextWeekday(WeekdayAfter(l, "by"), today),
    OrElse(NextWeekday(WeekdayAfter(l, "before"), today),
    OrElse(SpecificDate(DeliverBy(l)), SpecificDate(ArriveBy(l)))))

\* _parse_delivery_date with `return today` in place of `pass` where strptime refuses
\* the text: a date that does not parse would be resolved against the clock.
_parse_delivery_date_today(q, today) ==
    OrElse(DeliveryDate(Lower(q), today),
           IF OrElse(DeliverBy(Lower(q)), ArriveBy(Lower(q))) # None THEN Some(today) ELSE None)

\* _parse_delivery_date, with the reading of datetime.now() as today.
_parse_delivery_date(q, today) == DeliveryDate(Lower(q), today)

(***************************************************************************)
(* parse_query: the Intent Record of a query parsed when the clock reads   *)
(* today.                                                                  *)
(***************************************************************************)
parse_query(q, today) ==
    [max_price       |-> ExtractPrice(q),
     size            |-> ExtractSize(Lower(q)),
     color           |-> ExtractColor(Lower(q)),
     store           |-> ExtractStore(q),
     delivery_target |-> _parse_delivery_date(q, today),
     discount_code   |-> ExtractDiscount(q, Lower(q)),
     product_name    |-> _extract_product_name(q),
     query_type      |-> QueryType(Lower(q))]


(***************************************************************************)
(* EcommerceTools: the mock catalog and its lookups (src/tools.py).        *)
(***************************************************************************)
Product(id, name, price, color, size, store, stock, description) ==
    [id |-> id, name |-> name, price |-> price, color |-> color, size |-> size,
     store |-> store, stock |-> stock, description |-> description]

\* self.products, prices in cents
products == <<
    Product("1", "Floral Summer Skirt", 3599, "Floral", "S", "StoreA", 10,
            "Beautiful floral pattern"),
    Product("2", "White Athletic Sneakers", 6599, "White", "8", "StoreB", 5,
            "Classic white sneakers"),
    Product("3", "Casual Denim Jacket", 8000, "Blue", "M", "StoreA", 8,
            "Casual denim jacket"),
    Product("4", "Cocktail Dress", 8999, "Black", "S", "StoreB", 15,
            "Elegant cocktail dress"),
    Product("5", "Casual Denim Jacket", 7599, "Blue", "M", "StoreB", 6,
            "Casual denim jacket"),
    Product("6", "Casual Denim Jacket", 8299, "Blue", "M", "StoreC", 4,
            "Casual denim jacket") >>

\* self.stores
stores == [s \in {"StoreA", "StoreB", "StoreC"} |->
    CASE s = "StoreA" -> [store |-> "StoreA", days_allowed |-> 30, free_returns |-> TRUE,
                          conditions |-> "Items must be unworn with tags"]
      [] s = "StoreB" -> [store |-> "StoreB", days_allowed |-> 14, free_returns |-> FALSE,
                          conditions |-> "Return shipping fee applies"]
      [] s = "StoreC" -> [store |-> "StoreC", days_allowed |-> 21, free_returns |-> TRUE,
                          conditions |-> "Free returns within 21 days"]]

\* self.promo_codes, the discount in percent
promo_codes == [c \in {"SAVE10", "SUMMER20"} |-> IF c = "SAVE10" THEN 10 ELSE 20]

\* Python's truth value of an optional string: None and "" are false.
Truthy(opt) == opt # None /\ opt[1] # ""
\* Python's truth value of an optional number: None and 0 are false.
TruthyNumber(opt) == opt # None /\ opt[1] # 0

RECURSIVE Split(_)
\* str.split(): the words between runs of white space.
Split(s) ==
    LET a == SpanEnd(s, 1, "s")
        hits == {i \in a..Len(s) : SubSeq(s, i, i) = " "}
        b == IF hits = {} THEN Len(s) + 1 ELSE Min(hits)
    IN  IF a > Len(s) THEN <<>>
        ELSE <<SubSeq(s, a, b - 1)>> \o Split(SubSeq(s, b, Len(s)))

StopWords == {"a", "the", "in", "with", "and", "or", "for", "to", "under"}

\* "Breaking query into meaningful keywords"
Keywords(q) ==
    LET words == Split(q)
        keep(w) == Lower(w) \notin StopWords
        kept == SelectSeq(words, keep)
    IN  [k \in 1..Len(kept) |-> Lower(kept[k])]

\* ProductMatches without `else: continue` for an empty keyword_matches when there
\* is no keyword: an empty query would match every product.
ProductMatchesAnyQuery(p, keywords, max_price, color, size) ==
    LET product_text == Lower(p.name \o " " \o p.description \o " " \o p.color)
    IN  /\ keywords = <<>> \/ \E k \in 1..Len(keywords) : Contains(product_text, keywords[k])
        /\ TruthyNumber(max_price) => ~(p.price > max_price[1])
        /\ Truthy(color) => Lower(color[1]) = Lower(p.color)
        /\ Truthy(size) => Lower(size[1]) = Lower(p.size)

\* The body of the loop of search_products: product p passes every check.
ProductMatches(p, keywords, max_price, color, size) ==
    LET product_text == Lower(p.name \o " " \o p.description \o " " \o p.color)
    IN  /\ \E k \in 1..Len(keywords) : Contains(product_text, keywords[k])
        /\ TruthyNumber(max_price) => ~(p.price > max_price[1])
        /\ Truthy(color) => Lower(color[1]) = Lower(p.color)
        /\ Truthy(size) => Lower(size[1]) = Lower(p.size)

\* search_products: the products that pass, in catalog order.
search_products(q, max_price, color, size) ==
    LET keywords == Keywords(q)
        passes(p) == ProductMatches(p, keywords, max_price, color, size)
    IN  SelectSeq(products, passes)

RECURSIVE ComparePricesUpTo(_, _)
\* The dict results of compare_prices after the first n products, as its items in
\* insertion order: a store found again keeps its place and takes the new price.
ComparePricesUpTo(product_name, n) ==
    IF n = 0 THEN <<>>
    ELSE LET before == ComparePricesUpTo(product_name, n - 1)
             p == products[n]
             at == {k \in 1..Len(before) : before[k][1] = p.store}
         IN  IF ~(product_name = "" \/ Contains(Lower(p.name), Lower(product_name)))
             THEN before
             ELSE IF at = {} THEN Append(before, <<p.store, p.price>>)
             ELSE [before EXCEPT ![Min(at)] = <<p.store, p.price>>]

\* compare_prices: the items (store, price) of the dict it returns.
compare_prices(product_name) == ComparePricesUpTo(product_name, Len(products))

RECURSIVE SortedByPrice(_)
\* sorted(items, key=lambda x: x[1]): ascending price, equal prices in their order
\* (an insertion sort from the right, which is stable).
SortedByPrice(items) ==
    IF items = <<>> THEN <<>>
    ELSE LET rest == SortedByPrice(Tail(items))
             x == Head(items)
             smaller == {k \in 1..Len(rest) : rest[k][2] < x[2]}
             n == Cardinality(smaller)
         IN  SubSeq(rest, 1, n) \o <<x>> \o SubSeq(rest, n + 1, Len(rest))

\* get_return_policy
get_return_policy(store) == IF store \in DOMAIN stores THEN Some(stores[store]) ELSE None

\* apply_discount: price * (1 - discount), in hundredths of a cent; None for an
\* unknown code.
apply_discount(price, code) ==
    IF code \in DOMAIN promo_codes THEN Some(price * (100 - promo_codes[code])) ELSE None

\* get_shipping_estimate, with the drawn number of days and the clock reading as
\* arguments: delivery_date is clock + days, and it is compared with target_date as a
\* datetime.
get_shipping_estimate(target_date, days, clock) ==
    [available      |-> IF target_date # None THEN PlusDays(clock, days) <= target_date[1]
                        ELSE TRUE,
     cost           |-> 599,
     estimated_days |-> days,
     delivery_date  |-> PlusDays(clock, days)]

(***************************************************************************)
(* handle_query and its handlers (src/agent.py).  A response is a record   *)
(* of what the returned sentence states.                                   *)
(***************************************************************************)
NoInfo == [max_price |-> None, size |-> None, color |-> None, store |-> None,
           delivery_target |-> None, discount_code |-> None, product_name |-> None,
           query_type |-> "search"]
NoResponse == [kind |-> "none"]

\* random.randint(5, 7)
ShippingDays == 5..7

\* ChooseHandler without `and info["store"]`: a return query that names no store
\* would reach the return handler.
ChooseHandlerNoStore(i) ==
    IF i.query_type = "return" THEN "return"
    ELSE IF i.query_type = "comparison" /\ Truthy(i.product_name) THEN "comparison"
    ELSE "search"

\* The branch handle_query takes for an Intent Record.
ChooseHandler(i) ==
    IF i.query_type = "return" /\ Truthy(i.store) THEN "return"
    ELSE IF i.query_type = "comparison" /\ Truthy(i.product_name) THEN "comparison"
    ELSE "search"

\* _handle_return_query
ReturnResponse(i) ==
    LET policy == IF i.store = None THEN None ELSE get_return_policy(i.store[1])
    IN  IF policy # None
        THEN [kind |-> "return_policy", store |-> i.store,
              days_allowed |-> policy[1].days_allowed,
              free_returns |-> policy[1].free_returns,
              conditions |-> policy[1].conditions]
        ELSE [kind |-> "no_policy", store |-> i.store]

\* ComparisonLines with `price < info["max_price"]`: a store whose price equals the
\* ceiling would be left out.
ComparisonLinesStrict(comparisons, max_price) ==
    LET passes(item) == item[2] < max_price
    IN  SelectSeq(SortedByPrice(comparisons), passes)

\* The loop of _handle_comparison_query: the lines of the response, the stores in
\* ascending price that pass price <= max_price.
ComparisonLines(comparisons, max_price) ==
    LET passes(item) == item[2] <= max_price
    IN  SelectSeq(SortedByPrice(comparisons), passes)

\* _handle_comparison_query; price <= None raises TypeError on the first item.
ComparisonResponse(i) ==
    LET comparisons == compare_prices(i.product_name[1])
    IN  IF ~Truthy(i.product_name) THEN [kind |-> "no_product_name"]
        ELSE IF comparisons = <<>>
             THEN [kind |-> "no_comparisons", product_name |-> i.product_name]
        ELSE IF i.max_price = None THEN [kind |-> "TypeError"]
        ELSE [kind |-> "prices", product_name |-> i.product_name,
              lines |-> ComparisonLines(comparisons, i.max_price[1])]

\* estimated_date.strftime("%A, %B %d"): the weekday (0 for Monday), the month and the
\* day of the month the string names.  Day 0 is 26 October 2026, the 299th day of a
\* year whose months have the days of DaysInMonth.
Strftime(t) ==
    [weekday |-> Weekday(t),
     month   |-> Max({m \in 1..12 : DaysBefore(m) < 299 + (t \div TicksPerDay)}),
     day     |-> 299 + (t \div TicksPerDay)
                 - DaysBefore(Max({m \in 1..12 : DaysBefore(m) < 299 + (t \div TicksPerDay)}))]

\* _format_product_response from its second reading of the clock on: details is the
\* estimate get_shipping_estimate returned (None when no delivery target was parsed),
\* and date_str names the day of clock + estimated_days, whatever delivery_date the
\* estimate holds.
FormatProductResponse(product, i, details, clock) ==
    [kind |-> "product", product |-> product, shipping |-> details,
     date_str |-> IF details # None
                  THEN Some(Strftime(PlusDays(clock, details[1].estimated_days)))
                  ELSE None,
     discount |-> IF Truthy(i.discount_code)
                  THEN Some(apply_discount(product.price, i.discount_code[1]))
                  ELSE None]

\* The results of the search _handle_search_query makes.
SearchResults(i) ==
    search_products(IF Truthy(i.product_name) THEN i.product_name[1] ELSE "",
                    i.max_price, i.color, i.size)

(***************************************************************************)
(* The queries of the model: the four of main(), the deadline phrases, a   *)
(* few whole sentences, and every sequence of at most MaxPhrases phrases   *)
(* of the Lexicon, joined by single spaces.                                *)
(***************************************************************************)
DemoQueries == {
    "Find a floral skirt under $140 in size S. Is it in stock, and can I apply a discount code 'SAVE10'?",
    "I need white sneakers (size 8) for under $80 that can arrive by Monday.",
    "I found a 'casual denim jacket' at $79 on StoreA. Any better deals?",
    "I want to buy a cocktail dress from StoreB, but only if returns are hassle-free. Do they accept returns?" }

DeadlineQueries ==
    {"sneakers " \o kw \o " " \o weekdays[d] : kw \in {"by", "before"}, d \in 1..7}

SentenceQueries == {
    "sneakers delivered by march 5",
    "sneakers arrive by february 29",
    "compare ''",
    "Any better deals on a 'casual denim jacket' under $80?",
    "It was $80 before. Under $50 please",
    "show me a red dress in size S with coupon 'SUMMER20'",
    "blueberry",
    "a red or white blueberry dress",
    "yellow green red",
    "Floral BLUE skirt",
    "something white under $80 in size 8",
    "'the and'",
    "'xyz'" }

Lexicon == {
    "compare",
    "refund",
    "at StoreB",
    "'casual denim jacket'",
    "under $80",
    "under $0",
    "Under $50",
    "less than $30",
    "code \"summer dress\"" }

RECURSIVE PhraseQueries(_)
\* The queries of exactly n phrases.
PhraseQueries(n) ==
    IF n = 1 THEN Lexicon
    ELSE {q \o " " \o ph : q \in PhraseQueries(n - 1), ph \in Lexicon}

Queries ==
    DemoQueries \cup DeadlineQueries \cup SentenceQueries
    \cup UNION {PhraseQueries(n) : n \in 1..MaxPhrases}

(***************************************************************************)
(* The state machine.                                                      *)
(***************************************************************************)
Init ==
    /\ now \in {d * TicksPerDay : d \in 0..6}
    /\ elapsed = 0
    /\ pc = "idle"
    /\ query = ""
    /\ info = NoInfo
    /\ parsedAt = 0
    /\ handler = "none"
    /\ calls = <<>>
    /\ response = NoResponse
    /\ shipping = None
    /\ prev = None

\* handle_query(q) up to the Intent Record: parse_query reads the clock.
ParseQuery(q) ==
    /\ pc = "idle"
    /\ prev = None \/ q = query
    /\ query' = q
    /\ info' = parse_query(q, now)
    /\ parsedAt' = now
    /\ pc' = "dispatch"
    /\ UNCHANGED <<now, elapsed, handler, calls, response, shipping, prev>>

\* handle_query, "Handle different query types based on detected patterns".
Dispatch ==
    /\ pc = "dispatch"
    /\ handler' = ChooseHandler(info)
    /\ pc' = "handle"
    /\ UNCHANGED <<now, elapsed, query, info, parsedAt, calls, response, shipping, prev>>

HandleReturn ==
    /\ pc = "handle" /\ handler = "return"
    /\ calls' = Append(calls, "return")
    /\ response' = ReturnResponse(info)
    /\ pc' = "done"
    /\ UNCHANGED <<now, elapsed, query, info, parsedAt, handler, shipping, prev>>

HandleComparison ==
    /\ pc = "handle" /\ handler = "comparison"
    /\ calls' = Append(calls, "comparison")
    /\ response' = ComparisonResponse(info)
    /\ pc' = IF response'.kind = "TypeError" THEN "raised" ELSE "done"
    /\ UNCHANGED <<now, elapsed, query, info, parsedAt, handler, shipping, prev>>

\* _handle_search_query, and _format_product_response up to the estimate: the search,
\* and for its first result, when a delivery target was parsed, get_shipping_estimate,
\* which reads the clock.  With no result or no delivery target the handler reads no
\* clock and returns at once.
HandleSearch ==
    /\ pc = "handle" /\ handler = "search"
    /\ calls' = Append(calls, "search")
    /\ IF SearchResults(info) = <<>>
       THEN /\ response' = [kind |-> "no_products"]
            /\ shipping' = None
            /\ pc' = "done"
       ELSE IF info.delivery_target = None
            THEN /\ response' = FormatProductResponse(SearchResults(info)[1], info,
                                                      None, now)
                 /\ shipping' = None
                 /\ pc' = "done"
            ELSE /\ \E days \in ShippingDays :
                        shipping' = Some(get_shipping_estimate(info.delivery_target,
                                                               days, now))
                 /\ response' = response
                 /\ pc' = "format"
    /\ UNCHANGED <<now, elapsed, query, info, parsedAt, handler, prev>>

\* The rest of _format_product_response: estimated_date = datetime.now() +
\* timedelta(days=shipping.estimated_days), a second reading of the clock, taken after
\* get_shipping_estimate returned; then the sentences and the discount.
StateDelivery ==
    /\ pc = "format"
    /\ response' = FormatProductResponse(SearchResults(info)[1], info, shipping, now)
    /\ pc' = "done"
    /\ UNCHANGED <<now, elapsed, query, info, parsedAt, handler, calls, shipping, prev>>

\* The caller passes the same string to handle_query once more; the Intent Record of
\* the first call is kept for comparison.
Again ==
    /\ pc = "done" /\ prev = None
    /\ prev' = Some([info |-> info, at |-> parsedAt])
    /\ pc' = "idle"
    /\ handler' = "none"
    /\ calls' = <<>>
    /\ response' = NoResponse
    /\ shipping' = None
    /\ UNCHANGED <<now, elapsed, query, info, parsedAt>>

\* Time passes while a query is handled and between two calls.
Tick ==
    /\ pc # "idle"
    /\ elapsed < MaxTicks
    /\ now' = now + 1
    /\ elapsed' = elapsed + 1
    /\ UNCHANGED <<pc, query, info, parsedAt, handler, calls, response, shipping, prev>>

Next ==
    \/ \E q \in Queries : ParseQuery(q)
    \/ Dispatch
    \/ HandleReturn
    \/ HandleComparison
    \/ HandleSearch
    \/ StateDelivery
    \/ Again
    \/ Tick

Spec == Init /\ [][Next]_vars

(***************************************************************************)
(* Properties.  handle_query has returned when pc is "done", and has       *)
(* raised an exception when pc is "raised".                                *)
(***************************************************************************)

\* C1: handle_query ends by returning a response for every query; no combination of
\* parsed fields (in particular query_type = comparison with a product name and no
\* max_price) leads to an exception instead of a response.
C1_EveryPathResponds ==
    /\ pc # "raised"
    /\ pc = "done" => response.kind \notin {"none", "TypeError"}

\* C2: the classifier gives priority to return over comparison over search: a query
\* that matches a return pattern is of type return, also when it matches a comparison
\* pattern; comparison needs that no return pattern matches; search that none matches.
C2_ReturnFirst ==
    pc # "idle" =>
        info.query_type =
            IF AnyPattern(Lower(query), return_patterns) THEN "return"
            ELSE IF AnyPattern(Lower(query), comparison_patterns) THEN "comparison"
            ELSE "search"

\* C3: handle_query invokes exactly one handler, chosen once: the return handler iff
\* query_type = return and a store is present; otherwise the comparison handler iff
\* query_type = comparison and a product name is present; otherwise the search
\* handler.  (A field is present when it holds a non-empty value: the name taken from
\* an empty pair of quotation marks is no product name.)
C3_OneHandler ==
    /\ Len(calls) <= 1
    /\ pc \in {"done", "raised"} =>
        /\ Len(calls) = 1
        /\ handler = calls[1]
        /\ calls[1] = "return" <=> (info.query_type = "return" /\ Truthy(info.store))
        /\ calls[1] = "comparison" <=>
              /\ ~(info.query_type = "return" /\ Truthy(info.store))
              /\ info.query_type = "comparison" /\ Truthy(info.product_name)
        /\ calls[1] = "search" <=>
              /\ ~(info.query_type = "return" /\ Truthy(info.store))
              /\ ~(info.query_type = "comparison" /\ Truthy(info.product_name))

\* A comparison query without a product name has been answered by the search handler.
C3_Witness ==
    /\ pc = "done"
    /\ calls = <<"search">>
    /\ info.query_type = "comparison"
    /\ info.product_name = None

\* C4: in the comparison branch, when compare_prices returns a non-empty mapping and
\* max_price was parsed, the response lists exactly the stores of the mapping whose
\* price is <= max_price, each once, in ascending order of price.
C4_ListedStores ==
    (/\ pc = "done"
     /\ calls = <<"comparison">>
     /\ info.max_price # None
     /\ compare_prices(info.product_name[1]) # <<>>) =>
        LET mapping == compare_prices(info.product_name[1])
            listed  == response.lines
        IN  /\ response.kind = "prices"
            /\ \A k \in 1..Len(listed) :
                  /\ listed[k][2] <= info.max_price[1]
                  /\ \E m \in 1..Len(mapping) : mapping[m] = listed[k]
            /\ \A m \in 1..Len(mapping) :
                  Cardinality({k \in 1..Len(listed) : listed[k][1] = mapping[m][1]})
                      = IF mapping[m][2] <= info.max_price[1] THEN 1 ELSE 0
            /\ \A j, k \in 1..Len(listed) : j < k => listed[j][2] <= listed[k][2]

\* A comparison has listed two of three stores, the dearer of them at exactly the
\* ceiling, the cheaper one first.
C4_Witness ==
    /\ pc = "done"
    /\ calls = <<"comparison">>
    /\ response.kind = "prices"
    /\ Len(compare_prices(info.product_name[1])) = 3
    /\ Len(response.lines) = 2
    /\ response.lines[1][2] < response.lines[2][2]
    /\ response.lines[2][2] = info.max_price[1]

\* C5: for every weekday deadline phrase (by/before <weekday>) and every current
\* weekday, the delivery target is today plus d days, d = (target weekday - current
\* weekday) mod 7, but 7 when that is 0: 1 <= d <= 7, the target falls on the named
\* weekday and is never today.
C5_NextWeekday ==
    \A kw \in {"by", "before"}, wd \in 1..7 :
        (pc # "idle" /\ query = "sneakers " \o kw \o " " \o weekdays[wd]) =>
            \E d \in 1..7 :
                /\ d % 7 = ((wd - 1) - ((parsedAt \div TicksPerDay) % 7)) % 7
                /\ info.delivery_target = Some(parsedAt + d * TicksPerDay)
                /\ (info.delivery_target[1] \div TicksPerDay) % 7 = wd - 1
                /\ info.delivery_target[1] \div TicksPerDay # parsedAt \div TicksPerDay

\* On a Monday, "by monday" has been resolved to the Monday a week later.
C5_Witness ==
    /\ pc # "idle"
    /\ query = "sneakers by monday"
    /\ (parsedAt \div TicksPerDay) % 7 = 0
    /\ info.delivery_target = Some(parsedAt + 7 * TicksPerDay)

\* C6: the product name is never the text of a quoted span that follows the word
\* "code", whichever tier of the extractor gives the name.
C6_CodeNeverName ==
    pc # "idle" =>
        \A i \in 1..Len(query) :
            (At(Lower(query), i, "code ") /\ Ch(query, i + 5) \in Quotes) =>
                \A j \in (i + 6)..Len(query) :
                    (/\ Ch(query, j) \in Quotes
                     /\ \A k \in (i + 6)..(j - 1) : Ch(query, k) \notin Quotes) =>
                        info.product_name # Some(SubSeq(query, i + 6, j - 1))

\* C7: a query with a phrase "under $X" has max_price = X, whatever the position or
\* the letter case of the phrase and whatever other price the query mentions.  (The
\* queries with two such phrases are left aside: the claim names no X for them.)
C7_UnderWins ==
    pc # "idle" =>
        \A i \in 1..Len(query) :
            (/\ At(Lower(query), i, "under $")
             /\ Ch(query, i + 7) \in Digits
             /\ Cardinality({k \in 1..Len(query) : At(Lower(query), k, "under $")}) = 1) =>
                info.max_price =
                    Some(FloatCents(SubSeq(query, i + 7, NumberEnd(query, i + 7) - 1)))

\* C8: whenever max_price is given (0 included), every product search_products
\* returns has price <= max_price.
C8_PriceCeiling ==
    (pc = "done" /\ calls = <<"search">> /\ info.max_price # None) =>
        /\ \A k \in 1..Len(SearchResults(info)) :
              SearchResults(info)[k].price <= info.max_price[1]
        /\ response.kind = "product" => response.product.price <= info.max_price[1]

\* C9: estimated_days is 5, 6 or 7, and available holds iff the delivery date (now +
\* estimated_days) falls on or before the target date, the target being good through
\* the end of its day.
C9_AvailableThroughEndOfDay ==
    (pc = "done" /\ response.kind = "product" /\ response.shipping # None) =>
        /\ response.shipping[1].estimated_days \in 5..7
        /\ response.shipping[1].available <=>
              response.shipping[1].delivery_date \div TicksPerDay
                  <= info.delivery_target[1] \div TicksPerDay

\* C10, as claimed: two calls of parse_query on the same string, at any two moments,
\* yield Intent Records identical in every field, delivery_target included.
C10_Idempotent ==
    (prev # None /\ pc # "idle") => info = prev[1].info

\* C10, amended: the two Intent Records are identical in every field but
\* delivery_target; delivery_target is identical too when both calls read the same
\* clock value or the query has no weekday deadline phrase (by/before <weekday>).
C10_IdempotentButDeadline ==
    (prev # None /\ pc # "idle") =>
        /\ \A f \in {"max_price", "size", "color", "store", "discount_code",
                     "product_name", "query_type"} : info[f] = prev[1].info[f]
        /\ (\/ parsedAt = prev[1].at
            \/ /\ WeekdayAfter(Lower(query), "by") = None
               /\ WeekdayAfter(Lower(query), "before") = None) =>
              info.delivery_target = prev[1].info.delivery_target

\* A query with a date that strptime refuses has been parsed twice, at two clock
\* readings.
C10_Witness ==
    /\ prev # None
    /\ pc = "done"
    /\ parsedAt # prev[1].at
    /\ DeliverBy(Lower(query)) # None \/ ArriveBy(Lower(query)) # None
    /\ info.delivery_target = None
    /\ info = prev[1].info

\* C11: a vocabulary color is accepted only where it stands as a whole word of the
\* lower-cased query, never inside a longer word; of the colors that stand as whole
\* words, the earliest in the vocabulary order is returned, whatever their order in
\* the text; no color is returned when none stands as a whole word.
C11_WholeWordColor ==
    pc # "idle" =>
        LET l == Lower(query)
            whole(c) == \E i \in 1..Len(l) :
                            /\ At(l, i, c)
                            /\ Ch(l, i - 1) \notin WordChars
                            /\ Ch(l, i + Len(c)) \notin WordChars
            found == {k \in 1..7 : whole(<<"white", "black", "blue", "red", "green",
                                            "yellow", "floral">>[k])}
        IN  IF found = {} THEN info.color = None
            ELSE info.color = Some(<<"white", "black", "blue", "red", "green",
                                     "yellow", "floral">>[Min(found)])

\* A query with "blue" inside "blueberry" and with "red" before "white" has been
\* parsed: the color is white.
C11_Witness ==
    /\ pc # "idle"
    /\ Contains(Lower(query), "blueberry")
    /\ \E i, j \in 1..Len(query) :
          i < j /\ At(Lower(query), i, "red ") /\ At(Lower(query), j, "white ")
    /\ info.color = Some("white")

\* C12: whenever the search handler runs with no product name, the response is "I
\* couldn't find any products matching your criteria", whatever max_price, color and
\* size were parsed; a product is found only for a product name with a keyword (a
\* word that is no stop word) that occurs in the text of some product.
C12_NoNameNoProduct ==
    (pc = "done" /\ calls = <<"search">>) =>
        /\ ~Truthy(info.product_name) => response.kind = "no_products"
        /\ response.kind = "product" =>
              /\ Truthy(info.product_name)
              /\ \E k \in 1..Len(Split(info.product_name[1])) :
                    LET word == Lower(Split(info.product_name[1])[k])
                    IN  /\ word \notin {"a", "the", "in", "with", "and", "or", "for",
                                        "to", "under"}
                        /\ \E n \in 1..Len(products) :
                              Contains(Lower(products[n].name \o " "
                                             \o products[n].description \o " "
                                             \o products[n].color), word)

\* The search handler has answered "couldn't find" to a query without a product
\* name whose price ceiling, color and size the white sneakers of the catalog meet.
C12_Witness ==
    /\ pc = "done"
    /\ calls = <<"search">>
    /\ info.product_name = None
    /\ info.max_price = Some(8000)
    /\ info.color = Some("white")
    /\ info.size = Some("8")
    /\ response.kind = "no_products"
====
